---- MODULE Spec2Model ----
(***************************************************************************)
(* Model of the K4l3id0 mining bot: the MiningCoordinator (credential      *)
(* loading, bulk start, SIGINT shutdown with a force-exit timer) and the   *)
(* KaleidoMiningBot agents (registration check, session reconciliation,    *)
(* periodic balance updates through retryRequest, stop sequence).          *)
(*                                                                         *)
(* Text is a sequence of one-character strings.  Time is an integer clock  *)
(* `now' (Date.now()); one earnings unit is hashrate * EARNINGS_RATE for   *)
(* one clock unit.  Every await of the source is a point where other       *)
(* handlers may run; code between two awaits is one step.                  *)
(***************************************************************************)
EXTENDS Integers, Sequences, FiniteSets, TLC

\* ------------------------------------------------------------------ bounds
\* the instant (clock units since the epoch) at which the process starts
StartClock == 2
\* how far the clock advances during a run
MaxTicks == 1
\* how many periodic reports one agent's loop starts
MaxReports == 1
\* how many requests and session writes fail during a run
MaxFaults == 3
\* largest retry budget tried on retryRequest in isolation
MaxRetries == 4
MaxStartCalls == 2
MaxKeyLines == 3
MaxProxyLines == 2

MaxNow == StartClock + MaxTicks

\* --------------------------------------------------------- program constants
\* retryRequest(requestFn, operationName, retries = 3)
DefaultRetries == 3
\* MINING_CONFIG.RETRY_ATTEMPTS and MINING_CONFIG.RETRY_DELAY
RETRY_ATTEMPTS == 5
RETRY_DELAY == 3000
\* MINING_CONFIG.UPDATE_INTERVAL, and the wait in the catch of the mining loop
UPDATE_INTERVAL == 30000
LoopErrorWait == 5000

\* no wallet / no proxy / no time (null is 0 in arithmetic and falsy in ?:)
Null == "null"
NoProxy == <<>>
NoTime == 0
\* a file is <<>> when absent or unreadable, <<content>> otherwise
NoFile == <<>>
File(content) == <<content>>
\* a response / a pending write is <<>> when there is none, <<value>> otherwise
None == <<>>
Some(v) == <<v>>
Running == "running"

\* ------------------------------------------------------------------- text
NL == "\n"
SP == " "
HASH == "#"

RECURSIVE Split(_)
\* String.prototype.split('\n')
Split(s) ==
    IF \A n \in 1..Len(s) : s[n] # NL
    THEN <<s>>
    ELSE LET p == CHOOSE n \in 1..Len(s) : s[n] = NL /\ \A m \in 1..(n-1) : s[m] # NL
         IN <<SubSeq(s, 1, p-1)>> \o Split(SubSeq(s, p+1, Len(s)))

RECURSIVE TrimLeft(_)
TrimLeft(s) == IF s # <<>> /\ Head(s) = SP THEN TrimLeft(Tail(s)) ELSE s

RECURSIVE TrimRight(_)
TrimRight(s) ==
    IF s # <<>> /\ s[Len(s)] = SP THEN TrimRight(SubSeq(s, 1, Len(s)-1)) ELSE s

\* String.prototype.trim()
Trim(s) == TrimRight(TrimLeft(s))

\* line => line && !line.startsWith('#')
KeepLineWithComments(line) == line # <<>>

KeepLine(line) == line # <<>> /\ Head(line) # HASH

\* data.split('\n').map(line => line.trim()).filter(...)
ValidLines(data) ==
    SelectSeq([n \in 1..Len(Split(data)) |-> Trim(Split(data)[n])], KeepLine)

\* proxies.length > 0 ? proxies[index % proxies.length] : null   (index 0-based)
AssignProxyFromSecond(proxies, index) ==
    IF Len(proxies) > 0 THEN proxies[((index + 1) % Len(proxies)) + 1] ELSE NoProxy

AssignProxy(proxies, index) ==
    IF Len(proxies) > 0 THEN proxies[(index % Len(proxies)) + 1] ELSE NoProxy

\* loadPrivateKeysAndProxies: a file that cannot be read is NoFile
LoadPrivateKeysAndProxies(pk, px) ==
    IF pk = NoFile
    THEN <<>>
    ELSE LET privateKeys == ValidLines(pk[1])
             proxyData_  == IF px = NoFile THEN <<>> ELSE px[1]
             proxies     == IF proxyData_ # <<>> THEN ValidLines(proxyData_) ELSE <<>>
         IN [n \in 1..Len(privateKeys) |->
                [privateKey |-> privateKeys[n], proxy |-> AssignProxy(proxies, n-1)]]

\* ------------------------------------------------------------- identities
\* addresses ethers derives from the well-formed keys of the model
KeyAddress == (<<"1">> :> "A") @@ (<<"2">> :> "B")

HasPrefix(pk) == Len(pk) >= 2 /\ pk[1] = "0" /\ pk[2] = "x"

\* privateKey.startsWith('0x') ? privateKey : `0x${privateKey}`
FormatKey(pk) == IF HasPrefix(pk) THEN pk ELSE <<"0", "x">> \o pk

\* getWalletFromPrivateKey: the address, or Null when ethers rejects the key
GetWalletFromPrivateKey(pk) ==
    LET body == SubSeq(FormatKey(pk), 3, Len(FormatKey(pk)))
    IN IF body \in DOMAIN KeyAddress THEN KeyAddress[body] ELSE Null

Addresses == {"A", "B"}
\* wallet.toLowerCase()
ToLowerCase == ("A" :> "a") @@ ("B" :> "b")
Wallets == {"a", "b"}

\* ------------------------------------------------------------- the agents
\* new KaleidoMiningBot(wallet, botIndex, proxy)
NewBot(address, botIndex, proxy) ==
    [ wallet          |-> ToLowerCase[address],
      botIndex        |-> botIndex,
      proxy           |-> proxy,
      currentEarnings |-> [total |-> 0],
      miningState     |-> [isActive |-> FALSE, startTime |-> NoTime, lastUpdate |-> NoTime],
      referralBonus   |-> 0,
      sessionFile     |-> address ]

RECURSIVE BuildBotsUntilInvalid(_, _)
\* a construction loop that breaks at the first key without a wallet
BuildBotsUntilInvalid(items, i) ==
    IF i > Len(items)
    THEN <<>>
    ELSE LET w == GetWalletFromPrivateKey(items[i].privateKey)
         IN IF w = Null
            THEN <<>>
            ELSE <<NewBot(w, i, items[i].proxy)>> \o BuildBotsUntilInvalid(items, i + 1)

RECURSIVE BuildBots(_, _)
\* the construction loop of start(): entries i..end of the list, skipping
\* those whose key yields no wallet
BuildBots(items, i) ==
    IF i > Len(items)
    THEN <<>>
    ELSE LET w == GetWalletFromPrivateKey(items[i].privateKey)
         IN IF w = Null
            THEN BuildBots(items, i + 1)
            ELSE <<NewBot(w, i, items[i].proxy)>> \o BuildBots(items, i + 1)

\* calculateSessionEarnings: earnings for the time since lastUpdate
\* (startTime when lastUpdate is not set)
SessionEarnings(b, t) ==
    LET since == IF b.miningState.lastUpdate # NoTime
                 THEN b.miningState.lastUpdate
                 ELSE b.miningState.startTime
    IN (t - since) * (1 + b.referralBonus)

\* the side effect of calculateSessionEarnings: lastUpdate = now
MarkUpdate(b, t) == [b EXCEPT !.miningState.lastUpdate = t]

\* the document saveSession writes
SessionData(b) ==
    [ startTime     |-> b.miningState.startTime,
      earnings      |-> b.currentEarnings,
      referralBonus |-> b.referralBonus ]

\* session.earnings of a document without that field: reading or writing
\* .total of it throws a TypeError
Undefined == [total |-> -1]

HasEarnings(b) == b.currentEarnings # Undefined

\* loadSession succeeded: the three fields come from the stored document
RestoreSession(b, session) ==
    [b EXCEPT !.miningState.startTime = session.startTime,
              !.currentEarnings = session.earnings,
              !.referralBonus = session.referralBonus]

\* initialize, no previous session: seed from the registration response
SeedFromRegistration(b, userData, t) ==
    [b EXCEPT !.referralBonus = userData.referralBonus,
              !.currentEarnings = [total |-> userData.balance],
              !.miningState.startTime = t]

\* a reconciliation that takes the registration response even when a
\* session was loaded
ReconcileFromResponse(b, file, userData, t) ==
    [SeedFromRegistration(b, userData, t) EXCEPT
        !.miningState.isActive = TRUE, !.miningState.lastUpdate = t]

\* initialize steps 2 and 3 after a registered response
Reconcile(b, file, userData, t) ==
    LET loaded == IF file # NoFile THEN RestoreSession(b, file[1])
                  ELSE SeedFromRegistration(b, userData, t)
    IN [loaded EXCEPT !.miningState.isActive = TRUE, !.miningState.lastUpdate = t]

\* the wait of retryRequest after attempt i (0-based) failed, in ms
RetryWait(i) == 2000 * (i + 1)

\* a catch that compares the attempt index with the budget itself
RetryAfterFailureOffByOne(i, retries) == IF i = retries THEN "throw" ELSE "retry"

\* the catch of retryRequest after attempt i (0-based) failed
RetryAfterFailure(i, retries) == IF i = retries - 1 THEN "throw" ELSE "retry"

\* an update that adds what the service returned to the local total
AdoptBalanceAccumulated(b, data) ==
    [b EXCEPT !.currentEarnings.total = @ + data.balance]

\* response.data.success branch of updateBalance
AdoptBalance(b, data) == [b EXCEPT !.currentEarnings.total = data.balance]

RECURSIVE ReduceButLast(_, _)
\* a reduce that stops one element early
ReduceButLast(paid, n) ==
    IF n >= Len(paid) THEN 0 ELSE paid[n] + ReduceButLast(paid, n + 1)

RECURSIVE Reduce(_, _)
\* paidValues.reduce((sum, paid) => sum + paid, 0), from element n on
Reduce(paid, n) == IF n > Len(paid) THEN 0 ELSE paid[n] + Reduce(paid, n + 1)

\* a handler without its guard
ShutdownNeverInProgress(flag) == FALSE

\* the guard of the SIGINT handler
ShutdownInProgress(flag) == flag

\* a shutdown handler that sets no timer
SetNoForceExitTimer == FALSE

\* setTimeout(..., 30000) of the shutdown handler arms the force-exit timer
SetForceExitTimer == TRUE

\* exit codes with the timeout path ending in success
ExitStatusTimeoutOk(site) ==
    CASE site = "noKeys"  -> 1
      [] site = "forced"  -> 1
      [] site = "timeout" -> 0
      [] site = "error"   -> 1
      [] site = "done"    -> 0

\* process.exit codes by call site
ExitStatus(site) ==
    CASE site = "noKeys"  -> 1
      [] site = "forced"  -> 1
      [] site = "timeout" -> 1
      [] site = "error"   -> 1
      [] site = "done"    -> 0

\* ------------------------------------------------------------------ state
VARIABLES
    pkData,          \* pk.txt, NoFile when it cannot be read
    proxyData,       \* proxies.txt, NoFile when it cannot be read
    srv,             \* the remote service: per wallet, registration and balance
    disk,            \* session/<address>.json: NoFile or the stored document
    now,             \* Date.now()
    isRunning,       \* MiningCoordinator.isRunning
    isShuttingDown,  \* MiningCoordinator.isShuttingDown
    totalPaid,       \* MiningCoordinator.totalPaid
    bots,            \* MiningCoordinator.bots, the KaleidoMiningBot objects
    task,            \* per bot, the two async call chains: initialize() and stop()
    sigintHandler,   \* the 'SIGINT' listener of setupShutdownHandler is installed
    forceHandlers,   \* number of once('SIGINT') force-exit listeners registered
    forceExitTimer,  \* the 30 s setTimeout of the shutdown handler is pending
    exitSite,        \* which process.exit call ended the process, or Running
    faults,          \* failed requests and failed session writes so far
    call,            \* one retryRequest call observed in isolation
    pkAndProxies,    \* the list start() got from loadPrivateKeysAndProxies()
    startCalls       \* number of start() calls made so far

vars == <<pkData, proxyData, srv, disk, now, isRunning, isShuttingDown, totalPaid,
          bots, task, sigintHandler, forceHandlers, forceExitTimer, exitSite,
          faults, call, startCalls, pkAndProxies>>

coordVars == <<isRunning, isShuttingDown, totalPaid, sigintHandler, forceHandlers,
               forceExitTimer, exitSite>>
envVars == <<pkData, proxyData, call, startCalls, pkAndProxies>>
\* a request or a write may still fail
MayFail == faults < MaxFaults
Fault == faults' = faults + 1

Threads == {"loop", "stop"}

\* a call chain that has not started.  wait is the delay, in ms, of the timer
\* the chain sleeps on.  held and got record, for a stop(),
\* the total the bot had when it was called and the balance its own update
\* adopted; last is "failed" while the mining loop waits after an
\* updateBalance() that gave its request up
IdleThread ==
    [pc |-> "idle", i |-> 0, session |-> 0, resp |-> None, wr |-> None,
     count |-> 0, ret |-> 0, held |-> 0, got |-> None, last |-> "none",
     wait |-> 0]

NoCall == [pc |-> "none", retries |-> 0, outcomes |-> <<>>, i |-> 0,
           attempts |-> 0, result |-> "none"]

Alive == exitSite = Running

BotIds == 1..Len(bots)

Exit(site) == exitSite' = site

\* the values Promise.all collects, in the order of this.bots
PaidValues == [k \in BotIds |-> task[k].stop.ret]

AllStopsResolved == \A k \in BotIds : task[k].stop.pc = "done"

\* ------------------------------------------------------------ initial state
\* a record left by an earlier run: its total was confirmed by the service
\* then, so it does not exceed the service's balance now
StoredSession == [startTime |-> 1, earnings |-> [total |-> 1], referralBonus |-> 1]

\* a document that parses as JSON and has no earnings field
MalformedSession == [startTime |-> 1, earnings |-> Undefined, referralBonus |-> 1]

Account(reg) == [isRegistered |-> reg, balance |-> 2, referralBonus |-> 0]

InitCoordinator ==
    /\ isRunning = FALSE
    /\ isShuttingDown = FALSE
    /\ totalPaid = 0
    /\ bots = <<>>
    /\ task = <<>>
    /\ sigintHandler = FALSE
    /\ forceHandlers = 0
    /\ forceExitTimer = FALSE
    /\ startCalls = 0
    /\ pkAndProxies = None
    /\ exitSite = Running

\* pk.txt is missing, empty, or holds no usable key
InitNoKeys ==
    /\ pkData \in {NoFile, File(<<HASH, "1", NL, SP, NL>>), File(<<"z">>)}
    /\ proxyData = NoFile
    /\ srv = [w \in Wallets |-> Account(TRUE)]
    /\ disk = [a \in Addresses |-> NoFile]
    /\ now = StartClock
    /\ faults = 0

\* one agent, in an environment where requests and writes may fail and
\* time passes
InitSolo ==
    /\ pkData = File(<<"z", NL, "0", "x", "1">>)
    /\ proxyData = File(<<"p", NL, "q">>)
    /\ srv \in {[w \in Wallets |-> Account(w \in reg)] : reg \in {{"a", "b"}, {"b"}}}
    /\ disk \in {[a \in Addresses |-> f] : f \in {NoFile, File(StoredSession)}}
    /\ now = StartClock
    /\ faults = 0

\* two agents, in an environment where nothing fails and the run is short
InitFleet ==
    /\ pkData = File(<<"1", NL, "2", NL>>)
    /\ proxyData = NoFile
    /\ srv \in {[w \in Wallets |-> Account(w \in reg)] : reg \in {{"a", "b"}, {"b"}}}
    /\ disk = [a \in Addresses |-> IF a = "A" THEN File(StoredSession) ELSE NoFile]
    /\ now = MaxNow
    /\ faults = MaxFaults

\* two agents as in InitFleet, the session file of the first has no earnings
InitMalformed ==
    /\ pkData = File(<<"1", NL, "2", NL>>)
    /\ proxyData = NoFile
    /\ srv = [w \in Wallets |-> Account(TRUE)]
    /\ disk = [a \in Addresses |-> IF a = "A" THEN File(MalformedSession) ELSE NoFile]
    /\ now = MaxNow
    /\ faults = MaxFaults

Init ==
    /\ InitCoordinator
    /\ call = NoCall
    /\ (InitNoKeys \/ InitSolo \/ InitFleet \/ InitMalformed)

\* --------------------------------------------------------- the coordinator
\* the synchronous part of initialize(): the registration request is sent
StartInitialize == [IdleThread EXCEPT !.pc = "reg"]

\* the guard of start(): the instance is already running
AlreadyRunningNever(flag) == FALSE

AlreadyRunning(flag) == flag

\* MiningCoordinator.start()
Start ==
    /\ Alive
    /\ startCalls < MaxStartCalls
    /\ startCalls' = startCalls + 1
    /\ ~AlreadyRunning(isRunning)
    /\ isRunning' = TRUE
    /\ LET list == LoadPrivateKeysAndProxies(pkData, proxyData)
           built == BuildBots(list, 1)
       IN /\ pkAndProxies' = Some(list)
          /\ IF Len(list) = 0
             THEN /\ Exit("noKeys")
                  /\ UNCHANGED <<bots, task, sigintHandler>>
             ELSE /\ bots' = built
                  /\ task' = [k \in 1..Len(built) |->
                                 [loop |-> StartInitialize, stop |-> IdleThread]]
                  /\ sigintHandler' = TRUE
                  /\ UNCHANGED exitSite
    /\ UNCHANGED <<pkData, proxyData, call, faults, srv, disk, now,
                   isShuttingDown, totalPaid, forceHandlers, forceExitTimer>>

\* start() is called on the running instance (new MiningCoordinator() hands
\* out the same object): a warning is logged and the call returns
StartAgain ==
    /\ Alive
    /\ startCalls < MaxStartCalls
    /\ startCalls' = startCalls + 1
    /\ AlreadyRunning(isRunning)
    /\ UNCHANGED <<pkData, proxyData, call, pkAndProxies, faults, srv, disk, now,
                   isRunning, isShuttingDown, totalPaid, bots, task, sigintHandler,
                   forceHandlers, forceExitTimer, exitSite>>

\* time passes while the process runs
Tick ==
    /\ Alive
    /\ sigintHandler
    /\ now < MaxNow
    /\ now' = now + 1
    /\ UNCHANGED <<envVars, faults, srv, disk, coordVars, bots, task>>

\* the synchronous part of updateBalance(): compute the delta, send the POST
BeginUpdate(thr, b) ==
    [thr EXCEPT !.pc = "upd", !.i = 0, !.session = SessionEarnings(b, now),
                !.resp = None, !.wr = None]

\* the synchronous part of stop(): isActive = false, then updateBalance(true)
StopBot(b) == [b EXCEPT !.miningState.isActive = FALSE]

BeginStop(thr, b) ==
    [BeginUpdate(thr, StopBot(b)) EXCEPT !.count = thr.count + 1,
                                         !.held = b.currentEarnings.total]

\* SIGINT handler, first signal: fan stop() out to every bot
SigintShutdown ==
    /\ Alive
    /\ sigintHandler
    /\ ~ShutdownInProgress(isShuttingDown)
    /\ isShuttingDown' = TRUE
    /\ forceExitTimer' = SetForceExitTimer
    /\ bots' = [k \in BotIds |-> MarkUpdate(StopBot(bots[k]), now)]
    /\ task' = [k \in BotIds |->
                   [task[k] EXCEPT !.stop = BeginStop(task[k].stop, bots[k])]]
    /\ UNCHANGED <<envVars, faults, srv, disk, now, isRunning, totalPaid, sigintHandler,
                   forceHandlers, exitSite>>

\* a once('SIGINT') listener that runs in the emit that registered it
ForceExitArmedAtOnce(n) == TRUE

\* a once('SIGINT') listener registered by an earlier signal is there to run
ForceExitArmed(n) == n > 0

\* SIGINT handler while shutting down: warn and register the force-exit listener
SigintWarn ==
    /\ Alive
    /\ sigintHandler
    /\ ShutdownInProgress(isShuttingDown)
    /\ ~AllStopsResolved
    /\ ~ForceExitArmed(forceHandlers)
    /\ forceHandlers' = forceHandlers + 1
    /\ UNCHANGED <<envVars, faults, srv, disk, now, isRunning, isShuttingDown, totalPaid,
                   bots, task, sigintHandler, forceExitTimer, exitSite>>

\* SIGINT with a force-exit listener registered: the listener exits
SigintForce ==
    /\ Alive
    /\ sigintHandler
    /\ ShutdownInProgress(isShuttingDown)
    /\ ~AllStopsResolved
    /\ ForceExitArmed(forceHandlers)
    /\ Exit("forced")
    /\ UNCHANGED <<envVars, faults, srv, disk, now, isRunning, isShuttingDown, totalPaid,
                   bots, task, sigintHandler, forceHandlers, forceExitTimer>>

\* the 30 s timer fires before Promise.all resolved
ForceExitTimer ==
    /\ Alive
    /\ forceExitTimer
    /\ ~AllStopsResolved
    /\ Exit("timeout")
    /\ UNCHANGED <<envVars, faults, srv, disk, now, isRunning, isShuttingDown, totalPaid,
                   bots, task, sigintHandler, forceHandlers, forceExitTimer>>

\* Promise.all resolved: clear the timer, aggregate, exit
ShutdownComplete ==
    /\ Alive
    /\ isShuttingDown
    /\ AllStopsResolved
    /\ forceExitTimer' = FALSE
    /\ totalPaid' = Reduce(PaidValues, 1)
    /\ Exit("done")
    /\ UNCHANGED <<envVars, faults, srv, disk, now, isRunning, isShuttingDown,
                   bots, task, sigintHandler, forceHandlers>>

\* ---------------------------------------------------------------- an agent
SetTask(k, t, thr) == task' = [task EXCEPT ![k][t] = thr]
SetBot(k, b) == bots' = [bots EXCEPT ![k] = b]

\* the wait of one iteration of the mining loop: in the try after
\* updateBalance() returned, in the catch after it threw
LoopWait(threw) == IF threw THEN LoopErrorWait ELSE UPDATE_INTERVAL

\* what follows updateBalance() in each call chain, which returns normally
\* whatever happened to the request: the loop waits; stop() calls saveSession()
AfterUpdate(t, thr, b) ==
    IF t = "loop"
    THEN [thr EXCEPT !.pc = "sleep", !.resp = None, !.wr = None,
                     !.wait = LoopWait(FALSE)]
    ELSE [thr EXCEPT !.pc = "finalSave", !.resp = None, !.wr = Some(SessionData(b))]

\* a catch of initialize() that leaves the bot marked as mining
FailInitializeStillActive(b) == [b EXCEPT !.miningState.isActive = TRUE]

\* the catch of initialize()
FailInitialize(b) == [b EXCEPT !.miningState.isActive = FALSE]

\* the registration check is answered: isRegistered is false
RegRejected(k) ==
    /\ Alive
    /\ task[k].loop.pc = "reg"
    /\ ~srv[bots[k].wallet].isRegistered
    /\ SetBot(k, FailInitialize(bots[k]))
    /\ SetTask(k, "loop", [task[k].loop EXCEPT !.pc = "failed"])
    /\ UNCHANGED <<envVars, faults, srv, disk, now, coordVars>>

\* the registration check is answered: registered.  loadSession, then the
\* mining loop starts and sends its first update
RegAccepted(k) ==
    /\ Alive
    /\ task[k].loop.pc = "reg"
    /\ srv[bots[k].wallet].isRegistered
    /\ LET userData == [balance |-> srv[bots[k].wallet].balance,
                        referralBonus |-> srv[bots[k].wallet].referralBonus]
           b == Reconcile(bots[k], disk[bots[k].sessionFile], userData, now)
       IN /\ SetBot(k, MarkUpdate(b, now))
          /\ SetTask(k, "loop",
                 [BeginUpdate(task[k].loop, b) EXCEPT !.count = 1])
    /\ UNCHANGED <<envVars, faults, srv, disk, now, coordVars>>

\* an attempt of the registration check fails (network error, timeout, 5xx)
RegError(k) ==
    /\ Alive
    /\ task[k].loop.pc = "reg"
    /\ MayFail
    /\ Fault
    /\ IF RetryAfterFailure(task[k].loop.i, DefaultRetries) = "throw"
       THEN /\ SetBot(k, FailInitialize(bots[k]))
            /\ SetTask(k, "loop", [task[k].loop EXCEPT !.pc = "failed"])
       ELSE /\ SetTask(k, "loop", [task[k].loop EXCEPT !.i = @ + 1])
            /\ UNCHANGED bots
    /\ UNCHANGED <<envVars, srv, disk, now, coordVars>>

\* the service applies an update: it adds the session delta to the wallet's
\* balance and answers with the new balance
ServerUpdate(k, t) ==
    /\ Alive
    /\ task[k][t].pc = "upd"
    /\ task[k][t].resp = None
    /\ srv[bots[k].wallet].isRegistered
    /\ LET balance == srv[bots[k].wallet].balance + task[k][t].session
       IN /\ srv' = [srv EXCEPT ![bots[k].wallet].balance = balance]
          /\ SetTask(k, t, [task[k][t] EXCEPT
                 !.resp = Some([success |-> TRUE, balance |-> balance])])
    /\ UNCHANGED <<envVars, faults, disk, now, coordVars, bots>>

\* an else branch that takes the refusal as a balance of zero
AfterRefusalResets(b) == [b EXCEPT !.currentEarnings.total = 0]

\* the else branch of updateBalance: the refusal is logged, the bot is as it was
AfterRefusal(b) == b

\* the service answers an update with success=false: it applies nothing,
\* and updateBalance reads nothing else of that response
UpdRefused(k, t) ==
    /\ Alive
    /\ task[k][t].pc = "upd"
    /\ task[k][t].resp = None
    /\ SetBot(k, AfterRefusal(bots[k]))
    /\ SetTask(k, t, AfterUpdate(t, task[k][t], AfterRefusal(bots[k])))
    /\ UNCHANGED <<envVars, faults, srv, disk, now, coordVars>>

\* a catch of updateBalance that gives the bot up
CatchUpdateDeactivates(b) == [b EXCEPT !.miningState.isActive = FALSE]

\* the catch of updateBalance: the error is logged, the bot is as it was
CatchUpdate(b) == b

\* an attempt of the update fails, before or after the service applied it
UpdError(k, t) ==
    /\ Alive
    /\ task[k][t].pc = "upd"
    /\ MayFail
    /\ Fault
    /\ IF RetryAfterFailure(task[k][t].i, DefaultRetries) = "throw"
       THEN /\ SetBot(k, CatchUpdate(bots[k]))
            /\ SetTask(k, t, [AfterUpdate(t, task[k][t], CatchUpdate(bots[k]))
                                 EXCEPT !.last = IF t = "loop" THEN "failed" ELSE @])
       ELSE /\ SetTask(k, t, [task[k][t] EXCEPT !.i = @ + 1, !.resp = None])
            /\ UNCHANGED bots
    /\ UNCHANGED <<envVars, srv, disk, now, coordVars>>

\* the response of an applied update arrives: success is true.  Without an
\* earnings object the assignment throws into the catch of updateBalance
UpdResponse(k, t) ==
    /\ Alive
    /\ task[k][t].pc = "upd"
    /\ task[k][t].resp # None
    /\ task[k][t].resp[1].success
    /\ LET data == task[k][t].resp[1]
       IN IF HasEarnings(bots[k])
          THEN /\ SetBot(k, AdoptBalance(bots[k], data))
               /\ SetTask(k, t, [task[k][t] EXCEPT
                      !.pc = "save",
                      !.wr = Some(SessionData(AdoptBalance(bots[k], data))),
                      !.got = IF t = "stop" THEN Some(data.balance) ELSE @])
          ELSE /\ SetTask(k, t, AfterUpdate(t, task[k][t], bots[k]))
               /\ UNCHANGED bots
    /\ UNCHANGED <<envVars, faults, srv, disk, now, coordVars>>

\* what follows a saveSession(): inside updateBalance the chain goes on as
\* after the update; the saveSession() of stop() is followed by its return,
\* which throws in the try and again in the catch without an earnings object
AfterSave(t, thr, b) ==
    IF thr.pc = "save"
    THEN AfterUpdate(t, thr, b)
    ELSE IF HasEarnings(b)
         THEN [thr EXCEPT !.pc = "done", !.wr = None, !.ret = b.currentEarnings.total]
         ELSE [thr EXCEPT !.pc = "rejected", !.wr = None]

\* a stop() that rejects rejects Promise.all: the catch of the SIGINT
\* handler exits
SettleStop(thr) ==
    /\ exitSite' = IF thr.pc = "rejected" THEN "error" ELSE exitSite
    /\ UNCHANGED <<isRunning, isShuttingDown, totalPaid, sigintHandler,
                   forceHandlers, forceExitTimer>>

\* fs.writeFile of saveSession completes
WriteDone(k, t) ==
    /\ Alive
    /\ task[k][t].pc \in {"save", "finalSave"}
    /\ disk' = [disk EXCEPT ![bots[k].sessionFile] = File(task[k][t].wr[1])]
    /\ SetTask(k, t, AfterSave(t, task[k][t], bots[k]))
    /\ SettleStop(AfterSave(t, task[k][t], bots[k]))
    /\ UNCHANGED <<envVars, faults, srv, now, bots>>

\* fs.writeFile of saveSession fails: caught in saveSession
WriteFail(k, t) ==
    /\ Alive
    /\ task[k][t].pc \in {"save", "finalSave"}
    /\ MayFail
    /\ Fault
    /\ SetTask(k, t, AfterSave(t, task[k][t], bots[k]))
    /\ SettleStop(AfterSave(t, task[k][t], bots[k]))
    /\ UNCHANGED <<envVars, srv, disk, now, bots>>

\* the UPDATE_INTERVAL wait of the mining loop ends: next iteration or exit;
\* the run is followed for at most limit reports of a bot
LoopWakeUpTo(k, limit) ==
    /\ Alive
    /\ task[k].loop.pc = "sleep"
    /\ IF bots[k].miningState.isActive
       THEN /\ task[k].loop.count < limit
            /\ SetBot(k, MarkUpdate(bots[k], now))
            /\ SetTask(k, "loop",
                   [BeginUpdate(task[k].loop, bots[k]) EXCEPT !.count = @ + 1,
                                                              !.wait = 0,
                                                              !.last = "none"])
       ELSE /\ SetTask(k, "loop", [task[k].loop EXCEPT !.pc = "exited", !.wait = 0,
                                                       !.last = "none"])
            /\ UNCHANGED bots
    /\ UNCHANGED <<envVars, faults, srv, disk, now, coordVars>>

LoopWake(k) == LoopWakeUpTo(k, MaxReports)

Next ==
    \/ Start
    \/ Tick
    \/ SigintShutdown
    \/ SigintWarn
    \/ SigintForce
    \/ ForceExitTimer
    \/ ShutdownComplete
    \/ \E k \in BotIds : RegRejected(k)
    \/ \E k \in BotIds : RegAccepted(k)
    \/ \E k \in BotIds : RegError(k)
    \/ \E k \in BotIds : LoopWake(k)
    \/ \E k \in BotIds, t \in Threads : ServerUpdate(k, t)
    \/ \E k \in BotIds, t \in Threads : UpdRefused(k, t)
    \/ \E k \in BotIds, t \in Threads : UpdError(k, t)
    \/ \E k \in BotIds, t \in Threads : UpdResponse(k, t)
    \/ \E k \in BotIds, t \in Threads : WriteDone(k, t)
    \/ \E k \in BotIds, t \in Threads : WriteFail(k, t)

Spec == Init /\ [][Next]_vars

\* the event loop runs the callback of the force-exit timer once it is due,
\* unless the process has ended before
FairSpec == Init /\ [][Next]_vars /\ WF_vars(ForceExitTimer)

\* ------------------------------------------------- retryRequest in isolation
\* a call retryRequest(requestFn, name, retries) whose requestFn resolves or
\* rejects as outcomes says, attempt by attempt
InitRetry ==
    /\ InitCoordinator
    /\ pkData = NoFile
    /\ proxyData = NoFile
    /\ srv = [w \in Wallets |-> Account(TRUE)]
    /\ disk = [a \in Addresses |-> NoFile]
    /\ now = StartClock
    /\ faults = 0
    /\ \E n \in 0..MaxRetries, o \in [1..(MaxRetries + 1) -> BOOLEAN] :
          call = [pc |-> "running", retries |-> n, outcomes |-> o, i |-> 0,
                  attempts |-> 0, result |-> "none"]

notCall == <<pkData, proxyData, srv, disk, now, isRunning, isShuttingDown,
             totalPaid, bots, task, sigintHandler, forceHandlers, forceExitTimer,
             exitSite, faults, startCalls, pkAndProxies>>

\* an iteration of the for loop: requestFn() resolves, its value is returned
RetryResolved ==
    /\ call.pc = "running"
    /\ call.i < call.retries
    /\ call.outcomes[call.i + 1]
    /\ call' = [call EXCEPT !.pc = "returned", !.attempts = @ + 1,
                            !.result = "response"]
    /\ UNCHANGED notCall

\* an iteration of the for loop: requestFn() rejects
RetryRejected ==
    /\ call.pc = "running"
    /\ call.i < call.retries
    /\ ~call.outcomes[call.i + 1]
    /\ IF RetryAfterFailure(call.i, call.retries) = "throw"
       THEN call' = [call EXCEPT !.pc = "thrown", !.attempts = @ + 1,
                                 !.result = "error"]
       ELSE call' = [call EXCEPT !.i = @ + 1, !.attempts = @ + 1]
    /\ UNCHANGED notCall

\* the for loop ends without a return or a throw: the call returns undefined
RetryFellThrough ==
    /\ call.pc = "running"
    /\ call.i >= call.retries
    /\ call' = [call EXCEPT !.pc = "returned", !.result = "undefined"]
    /\ UNCHANGED notCall

NextRetry == RetryResolved \/ RetryRejected \/ RetryFellThrough

SpecRetry == InitRetry /\ [][NextRetry]_vars

\* ------------------------------------------------------------------ claims
Exited == exitSite # Running

RECURSIVE SumOver(_, _)
\* the sum of f over the index set S
SumOver(f, S) ==
    IF S = {} THEN 0
    ELSE LET x == CHOOSE y \in S : TRUE IN f[x] + SumOver(f, S \ {x})

Total(k) == bots[k].currentEarnings.total
Stored(address) == disk[address][1]

\* C1: when the shutdown completes, totalPaid is exactly the sum of the values
\* stop() returned over all bots of the collection, and totalPaid is assigned
\* only in the step that follows the collection of all stop() results, after
\* which nothing runs.
C1_TotalPaidIsSum ==
    /\ [](exitSite = "done" =>
            totalPaid = SumOver([k \in BotIds |-> task[k].stop.ret], BotIds))
    /\ [][totalPaid' # totalPaid =>
            /\ isShuttingDown
            /\ AllStopsResolved
            /\ ~Exited
            /\ exitSite' = "done"]_vars

\* two bots stopped with different non-zero totals and the summary was made
C1_Witness ==
    /\ exitSite = "done"
    /\ Len(bots) = 2
    /\ task[1].stop.ret > 0
    /\ task[2].stop.ret > task[1].stop.ret
    /\ totalPaid = task[1].stop.ret + task[2].stop.ret

\* C2: once the shutdown has started, the process ends with status 1 unless
\* every stop() resolves; so if one stop() never resolves the process still
\* exits, with a non-zero status, however many other bots finished.
C2_ShutdownDeadline ==
    isShuttingDown ~> ((Exited /\ ExitStatus(exitSite) = 1) \/ AllStopsResolved)

\* the timer ended a shutdown in which one stop() had resolved and one had not
C2_Witness ==
    /\ exitSite = "timeout"
    /\ Len(bots) = 2
    /\ \E k \in BotIds : task[k].stop.pc = "done"
    /\ \E k \in BotIds : task[k].stop.pc # "done"

\* C3: a bot whose registration check failed is never asked to stop(): its
\* stop() chain is never started.
C3_FailedNeverStopped ==
    \A k \in BotIds : task[k].loop.pc = "failed" => task[k].stop.pc = "idle"

\* C4: in the step in which a bot becomes active, its total, referralBonus and
\* startTime are those of the stored session record if one exists, whatever
\* the registration check returned; without a record they are the balance and
\* bonus of the registration response and the current instant.
C4_Reconciliation ==
    [][\A k \in BotIds :
          (~bots[k].miningState.isActive /\ bots'[k].miningState.isActive) =>
             LET file == disk[bots[k].sessionFile]
                 b == bots'[k]
             IN IF file # NoFile
                THEN /\ b.currentEarnings.total = file[1].earnings.total
                     /\ b.referralBonus = file[1].referralBonus
                     /\ b.miningState.startTime = file[1].startTime
                ELSE /\ b.currentEarnings.total = srv[b.wallet].balance
                     /\ b.referralBonus = srv[b.wallet].referralBonus
                     /\ b.miningState.startTime = now]_vars

\* a bot is active on the values of its record, which differ from the
\* balance and bonus the service holds and from the current instant
C4_Witness ==
    \E k \in BotIds :
       /\ bots[k].miningState.isActive
       /\ task[k].loop.pc = "upd"
       /\ task[k].stop.pc = "idle"
       /\ disk[bots[k].sessionFile] # NoFile
       /\ Total(k) = Stored(bots[k].sessionFile).earnings.total
       /\ Total(k) # srv[bots[k].wallet].balance
       /\ bots[k].referralBonus # srv[bots[k].wallet].referralBonus
       /\ bots[k].miningState.startTime # now

\* C5: the earnings.total of a persisted session record never decreases, and
\* a record once written is never lost.
C5_RecordNeverDecreases ==
    [][\A a \in Addresses :
          disk[a] # NoFile =>
             /\ disk'[a] # NoFile
             /\ disk'[a][1].earnings.total >= disk[a][1].earnings.total]_vars

\* C6: with a service that adds each delta to a cumulative balance, a
\* successful update never lowers the bot's earnings.total.
C6_TotalNeverDecreases ==
    [][\A k \in BotIds : \A t \in Threads :
          (task[k][t].pc = "upd" /\ task'[k][t].pc = "save") =>
             bots'[k].currentEarnings.total >= bots[k].currentEarnings.total]_vars

\* C7 (as stated): when a successful balance update has finished, the bot's
\* earnings.total and the persisted record's earnings.total both equal the
\* balance of that response.
C7_UpdateAdoptedAndPersisted ==
    [][\A k \in BotIds : \A t \in Threads :
          (task[k][t].pc = "save" /\ task'[k][t].pc # "save") =>
             /\ bots'[k].currentEarnings.total = task[k][t].resp[1].balance
             /\ disk'[bots[k].sessionFile] # NoFile
             /\ disk'[bots[k].sessionFile][1].earnings.total
                    = task[k][t].resp[1].balance]_vars

\* C7 (amended): when a successful response is processed, the bot's
\* earnings.total becomes the balance of that response and the record handed
\* to saveSession carries that balance; when that write ends, the persisted
\* record is the one handed over if the write succeeded and is unchanged if
\* it failed.
C7_UpdateAdopted ==
    [][\A k \in BotIds : \A t \in Threads :
          /\ (task[k][t].pc = "upd" /\ task'[k][t].pc = "save") =>
                /\ bots'[k].currentEarnings.total = task[k][t].resp[1].balance
                /\ task'[k][t].wr[1].earnings.total = task[k][t].resp[1].balance
          /\ (task[k][t].pc = "save" /\ task'[k][t].pc # "save") =>
                \/ disk'[bots[k].sessionFile] = File(task[k][t].wr[1])
                \/ /\ faults' = faults + 1
                   /\ disk' = disk]_vars

\* a bot that resumed a record with total 1 has adopted and persisted a
\* server balance that its own total plus the delta does not give
C7_Witness ==
    \E k \in BotIds :
       /\ task[k].loop.pc = "sleep"
       /\ task[k].stop.pc = "idle"
       /\ task[k].loop.session = 0
       /\ Total(k) = srv[bots[k].wallet].balance
       /\ Total(k) > StoredSession.earnings.total
       /\ bots[k].miningState.startTime = StoredSession.startTime
       /\ disk[bots[k].sessionFile] = File(SessionData(bots[k]))

\* C8: a call with a budget of N >= 1 attempts whose every attempt fails makes
\* exactly N attempts and throws the last failure; a call whose attempt k <= N
\* is the first to succeed makes exactly k attempts and returns that response.
C8_RetryAttempts ==
    LET n == call.retries
        firstOk == {k \in 1..n : call.outcomes[k] /\ \A j \in 1..(k-1) : ~call.outcomes[j]}
    IN (call.pc \in {"returned", "thrown"} /\ n >= 1) =>
          IF firstOk = {}
          THEN call.pc = "thrown" /\ call.attempts = n /\ call.result = "error"
          ELSE /\ call.pc = "returned"
               /\ call.result = "response"
               /\ \E k \in firstOk : call.attempts = k

\* a call with a budget of three failed three times and threw
C8_Witness ==
    /\ call.pc = "thrown"
    /\ call.retries = DefaultRetries
    /\ call.attempts = DefaultRetries

\* C9: stop() is invoked at most once on each bot, and no step taken while
\* the shutdown is in progress invokes stop() on any bot.
C9_StopAtMostOnce ==
    /\ [](\A k \in BotIds : task[k].stop.count <= 1)
    /\ [][isShuttingDown =>
            \A k \in BotIds : task'[k].stop.count = task[k].stop.count]_vars

\* a second signal arrived during the shutdown of two bots, each stopped once
C9_Witness ==
    /\ isShuttingDown
    /\ forceHandlers = 1
    /\ Len(bots) = 2
    /\ \A k \in BotIds : task[k].stop.count = 1

\* C10: the process exits with status 0 exactly when a shutdown was triggered
\* and every stop() resolved before the timer fired, with totalPaid computed;
\* every other exit has status 1.
C10_ExitStatus ==
    Exited =>
       /\ ExitStatus(exitSite) \in {0, 1}
       /\ ExitStatus(exitSite) = 0 <=>
             /\ isShuttingDown
             /\ AllStopsResolved
             /\ ~forceExitTimer
             /\ totalPaid = SumOver([k \in BotIds |-> task[k].stop.ret], BotIds)
       /\ ExitStatus(exitSite) = 1 <=>
             \/ ~sigintHandler
             \/ isShuttingDown /\ ~AllStopsResolved

\* a third signal forced the exit of a shutdown that had not finished
C10_Witness ==
    /\ exitSite = "forced"
    /\ ExitStatus(exitSite) = 1
    /\ isShuttingDown
    /\ forceHandlers = 1
    /\ ~AllStopsResolved

\* lines a key file or a proxy file is made of
KeyLines == {<<"1">>, <<SP, "2", SP>>, <<"0", "x", "1">>, <<"z">>, <<HASH, "1">>,
             <<>>, <<SP>>}
ProxyLines == {<<"p">>, <<SP, "q">>, <<HASH, "p">>, <<>>}

SeqsUpTo(S, n) == UNION {[1..m -> S] : m \in 0..n}

RECURSIVE Join(_)
\* the text of a file with these lines
Join(lines) ==
    IF lines = <<>> THEN <<>>
    ELSE IF Len(lines) = 1 THEN lines[1]
    ELSE lines[1] \o <<NL>> \o Join(Tail(lines))

\* start() on any pair of files: unreadable, empty, comments, blanks, keys
InitFiles ==
    /\ InitCoordinator
    /\ call = NoCall
    /\ pkData \in {NoFile} \cup {File(Join(ls)) : ls \in SeqsUpTo(KeyLines, MaxKeyLines)}
    /\ proxyData \in
          {NoFile} \cup {File(Join(ls)) : ls \in SeqsUpTo(ProxyLines, MaxProxyLines)}
    /\ srv = [w \in Wallets |-> Account(TRUE)]
    /\ disk = [a \in Addresses |-> NoFile]
    /\ now = StartClock
    /\ faults = 0

SpecFiles == InitFiles /\ [][Start]_vars

\* one agent followed for one report more, at a fixed time
InitLoop ==
    /\ InitCoordinator
    /\ call = NoCall
    /\ pkData = File(<<"z", NL, "0", "x", "1">>)
    /\ proxyData = File(<<"p", NL, "q">>)
    /\ srv \in {[w \in Wallets |-> Account(w \in reg)] : reg \in {{"a", "b"}, {"b"}}}
    /\ disk \in {[a \in Addresses |-> NoFile],
                 [a \in Addresses |-> File(StoredSession)]}
    /\ now = MaxNow
    /\ faults = 0

NextLoop ==
    \/ Start
    \/ SigintShutdown
    \/ SigintWarn
    \/ SigintForce
    \/ ForceExitTimer
    \/ ShutdownComplete
    \/ \E k \in BotIds : RegRejected(k)
    \/ \E k \in BotIds : RegAccepted(k)
    \/ \E k \in BotIds : RegError(k)
    \/ \E k \in BotIds : LoopWakeUpTo(k, MaxReports + 1)
    \/ \E k \in BotIds, t \in Threads : ServerUpdate(k, t)
    \/ \E k \in BotIds, t \in Threads : UpdRefused(k, t)
    \/ \E k \in BotIds, t \in Threads : UpdError(k, t)
    \/ \E k \in BotIds, t \in Threads : UpdResponse(k, t)
    \/ \E k \in BotIds, t \in Threads : WriteDone(k, t)
    \/ \E k \in BotIds, t \in Threads : WriteFail(k, t)

SpecLoop == InitLoop /\ [][NextLoop]_vars

\* one agent that is never stopped, followed for two reports more while
\* time passes
InitReports ==
    /\ InitCoordinator
    /\ call = NoCall
    /\ pkData = File(<<"z", NL, "0", "x", "1">>)
    /\ proxyData = File(<<"p", NL, "q">>)
    /\ srv = [w \in Wallets |-> Account(TRUE)]
    /\ disk \in {[a \in Addresses |-> f] : f \in {NoFile, File(StoredSession)}}
    /\ now = StartClock
    /\ faults = 0

NextReports ==
    \/ Start
    \/ Tick
    \/ \E k \in BotIds : RegAccepted(k)
    \/ \E k \in BotIds : RegError(k)
    \/ \E k \in BotIds : LoopWakeUpTo(k, MaxReports + 2)
    \/ \E k \in BotIds, t \in Threads : ServerUpdate(k, t)
    \/ \E k \in BotIds, t \in Threads : UpdRefused(k, t)
    \/ \E k \in BotIds, t \in Threads : UpdError(k, t)
    \/ \E k \in BotIds, t \in Threads : UpdResponse(k, t)
    \/ \E k \in BotIds, t \in Threads : WriteDone(k, t)
    \/ \E k \in BotIds, t \in Threads : WriteFail(k, t)

SpecReports == InitReports /\ [][NextReports]_vars

\* start() may be called again at any time by the code that owns the instance
InitStart ==
    /\ InitCoordinator
    /\ call = NoCall
    /\ (InitNoKeys \/ InitSolo)

SpecStart == InitStart /\ [][Next \/ StartAgain]_vars

\* C12: a start() call made while the instance is running changes nothing:
\* no file is loaded, the bots and their call chains are as they were, no
\* handler is installed again and the process does not exit.
C12_StartIdempotent ==
    [][(isRunning /\ startCalls' # startCalls) =>
          UNCHANGED <<pkData, proxyData, srv, disk, now, isRunning,
                      isShuttingDown, totalPaid, bots, task, sigintHandler,
                      forceHandlers, forceExitTimer, exitSite, faults>>]_vars

C12_Witness ==
    /\ startCalls = 2
    /\ \E k \in BotIds : bots[k].miningState.isActive /\ task[k].loop.count = 1

\* the positions of a text where the content of a kept line starts and ends:
\* the first character of a line that is not a blank, when it is not '#'
LineStartsAt(t, p) == p = 1 \/ t[p - 1] = NL
FirstContent(t) ==
    {p \in 1..Len(t) :
        /\ t[p] \notin {SP, NL}
        /\ \E b \in 1..p : LineStartsAt(t, b) /\ \A q \in b..(p - 1) : t[q] = SP}
ValidStarts(t) == {p \in FirstContent(t) : t[p] # HASH}
LastContent(t, p) ==
    CHOOSE e \in p..Len(t) :
        /\ \A q \in p..e : t[q] # NL
        /\ t[e] # SP
        /\ \A q \in (e + 1)..Len(t) : t[q] = SP \/ \E r \in (e + 1)..q : t[r] = NL
Nth(S, i) == CHOOSE p \in S : Cardinality({q \in S : q < p}) = i - 1
ValidLine(t, i) == SubSeq(t, Nth(ValidStarts(t), i), LastContent(t, Nth(ValidStarts(t), i)))
Text(file) == IF file = NoFile THEN <<>> ELSE file[1]

\* C13: when pk.txt cannot be read or has no line that is neither blank nor a
\* comment, start() gets the empty list and exits with status 1; no bot is
\* constructed and the SIGINT handler is not installed.
C13_NoKeysExit ==
    (isRunning /\ ValidStarts(Text(pkData)) = {}) =>
       /\ pkAndProxies = Some(<<>>)
       /\ exitSite = "noKeys"
       /\ ExitStatus(exitSite) = 1
       /\ bots = <<>>
       /\ task = <<>>
       /\ ~sigintHandler

C13_Witness ==
    /\ isRunning
    /\ pkData = File(<<HASH, "1", NL, SP, NL>>)
    /\ proxyData = File(<<"p">>)
    /\ exitSite = "noKeys"

\* C14: the list has one entry per kept line of pk.txt, in file order, each
\* with the trimmed line as key; with M > 0 kept lines in proxies.txt entry i
\* (counted from 0) has kept proxy line i mod M, and with none, or without a
\* readable proxies.txt, every entry has no proxy.
C14_LoaderEntries ==
    pkAndProxies # None =>
       LET list == pkAndProxies[1]
           K == Cardinality(ValidStarts(Text(pkData)))
           M == Cardinality(ValidStarts(Text(proxyData)))
       IN /\ Len(list) = K
          /\ \A n \in 1..K :
                /\ list[n].privateKey = ValidLine(Text(pkData), n)
                /\ list[n].proxy =
                      IF M > 0
                      THEN ValidLine(Text(proxyData), ((n - 1) % M) + 1)
                      ELSE NoProxy

C14_Witness ==
    /\ pkData = File(<<SP, "2", SP, NL, "1", NL, "1">>)
    /\ proxyData = File(<<"p", NL, SP, "q">>)
    /\ pkAndProxies # None
    /\ Len(pkAndProxies[1]) = 3
    /\ pkAndProxies[1][3].proxy = <<"p">>

\* C15: a registration check or balance update whose every attempt fails
\* gives up after MINING_CONFIG.RETRY_ATTEMPTS attempts, and the waits
\* between its attempts are multiples of MINING_CONFIG.RETRY_DELAY.
C15_ConfiguredRetries ==
    [][\A k \in BotIds, t \in Threads :
          (/\ task[k][t].pc \in {"reg", "upd"}
           /\ faults' = faults + 1
           /\ task'[k][t].pc # task[k][t].pc)
          => /\ task[k][t].i + 1 = RETRY_ATTEMPTS
             /\ \A j \in 0..(task[k][t].i - 1) :
                   RetryWait(j) = RETRY_DELAY * (j + 1)]_vars

\* C16: a bot never has two update-balance submissions outstanding: the
\* update of the report loop and the final update of stop() do not overlap.
C16_UpdatesSequential ==
    \A k \in BotIds : ~(task[k].loop.pc = "upd" /\ task[k].stop.pc = "upd")

\* C17: once stop() has set isActive to false the flag is never true again,
\* also when stop() came while the registration check was outstanding, and
\* the call chain of initialize() starts no report afterwards.
C17_InactiveAfterStop ==
    [][\A k \in BotIds :
          task[k].stop.pc # "idle" =>
             /\ ~bots'[k].miningState.isActive
             /\ task'[k].loop.count = task[k].loop.count]_vars

\* C18: initialize() fails only out of its registration check; the failed
\* bot is not active then or later, its call chain never moves again and has
\* sent no report, and the failing step changes nothing of the coordinator
\* and nothing of any other bot.
C18_FailedIsTerminal ==
    [][\A k \in BotIds :
          /\ (task[k].loop.pc = "failed") =>
                /\ task'[k].loop = task[k].loop
                /\ task[k].loop.count = 0
                /\ ~bots'[k].miningState.isActive
          /\ (task[k].loop.pc # "failed" /\ task'[k].loop.pc = "failed") =>
                /\ task[k].loop.pc = "reg"
                /\ ~bots'[k].miningState.isActive
                /\ UNCHANGED coordVars
                /\ \A j \in BotIds \ {k} : bots'[j] = bots[j] /\ task'[j] = task[j]]_vars

C18_Witness ==
    /\ Alive
    /\ \E k, j \in BotIds :
          /\ task[k].loop.pc = "failed"
          /\ bots[j].miningState.isActive
          /\ task[j].loop.pc = "sleep"

\* C19: when an update sent by the mining loop is given up after its last
\* attempt, the bot (its total, its isActive flag) and the session files are
\* as before, the loop goes to its wait, and a wait that ends while the bot is
\* active always starts the next report.
C19_MissedUpdateSkipped ==
    [][\A k \in BotIds :
          /\ (/\ task[k].loop.pc = "upd"
              /\ faults' = faults + 1
              /\ task'[k].loop.pc # "upd")
             => /\ bots'[k] = bots[k]
                /\ disk' = disk
                /\ task'[k].loop.pc = "sleep"
                /\ task'[k].loop.wr = None
          /\ (/\ task[k].loop.pc = "sleep"
              /\ task'[k].loop # task[k].loop
              /\ bots[k].miningState.isActive)
             => /\ task'[k].loop.pc = "upd"
                /\ task'[k].loop.count = task[k].loop.count + 1
                /\ bots'[k].miningState.isActive]_vars

\* the first report was given up, the record and the total are those of the
\* stored session, and the second report is on its way
C19_Witness ==
    \E k \in BotIds :
       /\ faults = DefaultRetries
       /\ task[k].loop.pc = "upd"
       /\ task[k].loop.count = 2
       /\ bots[k].miningState.isActive
       /\ bots[k].currentEarnings.total = StoredSession.earnings.total
       /\ disk[bots[k].sessionFile] = File(StoredSession)
       /\ srv[bots[k].wallet].balance # StoredSession.earnings.total

\* C20: a stop() that has returned made at most the retry budget of attempts
\* for its final update, and returned the balance that update adopted when
\* it succeeded and otherwise the total the bot held when stop() was called.
C20_StopReturnsConfirmedTotal ==
    \A k \in BotIds :
       task[k].stop.pc = "done" =>
          /\ task[k].stop.i < DefaultRetries
          /\ task[k].stop.ret = IF task[k].stop.got # None
                                THEN task[k].stop.got[1]
                                ELSE task[k].stop.held

\* C11: when the stop() of one bot rejects, the shutdown is not aborted: the
\* process does not take the error exit, and when it has exited it did so
\* with status 0 and a totalPaid that sums the totals of the other bots.
C11_RejectedStopCountsZero ==
    \A k \in BotIds :
       task[k].stop.pc = "rejected" =>
          /\ exitSite # "error"
          /\ Exited =>
                /\ ExitStatus(exitSite) = 0
                /\ totalPaid = SumOver([j \in BotIds \ {k} |-> task[j].stop.ret],
                                       BotIds \ {k})

\* C21: the report that follows one given up after its last attempt submits
\* the delta of the given-up report plus the earnings of the time since.
C21_DeltaCoversFailedCycle ==
    [][\A k \in BotIds :
          (/\ task[k].loop.pc = "sleep"
           /\ task[k].loop.last = "failed"
           /\ task'[k].loop.pc = "upd")
          => task'[k].loop.session =
                task[k].loop.session
                + (now - bots[k].miningState.lastUpdate) * (1 + bots[k].referralBonus)]_vars

\* the entries of the loaded list whose key ethers accepts, by position
Resolved(list) ==
    {n \in 1..Len(list) : GetWalletFromPrivateKey(list[n].privateKey) # Null}

\* C22: after start() the bots are, in list order, the entries whose key
\* yields a wallet: bot n is made from the n-th such entry, carries that
\* entry's position in the list (from 1) and its proxy, and its initialize()
\* has been called; the other entries have no bot.
C22_BotsFollowEntries ==
    (pkAndProxies # None /\ pkAndProxies[1] # <<>>) =>
       LET list == pkAndProxies[1]
       IN /\ Len(bots) = Cardinality(Resolved(list))
          /\ DOMAIN task = DOMAIN bots
          /\ \A n \in BotIds :
                LET e == Nth(Resolved(list), n)
                IN /\ bots[n].botIndex = e
                   /\ bots[n].proxy = list[e].proxy
                   /\ bots[n].sessionFile = GetWalletFromPrivateKey(list[e].privateKey)
                   /\ bots[n].wallet =
                         ToLowerCase[GetWalletFromPrivateKey(list[e].privateKey)]
                   /\ task[n].loop.pc # "idle"

\* an unusable key between two usable ones
C22_Witness ==
    /\ pkData = File(<<"1", NL, "z", NL, SP, "2", SP>>)
    /\ proxyData = File(<<"p", NL, SP, "q">>)
    /\ Len(bots) = 2
    /\ bots[2].botIndex = 3
    /\ bots[2].proxy = <<"p">>
    /\ task[2].loop.pc = "reg"

\* C23: no two bots of the collection have the same wallet or the same
\* session file.
C23_BotsDisjoint ==
    \A k, j \in BotIds :
       k # j => /\ bots[k].wallet # bots[j].wallet
                /\ bots[k].sessionFile # bots[j].sessionFile

\* C24: while the stop() calls of a shutdown are outstanding, the first
\* further SIGINT registers the force-exit listener and changes nothing else,
\* the process keeps running; the SIGINT after it exits with status 1 at
\* once, with stop() calls still outstanding.
C24_SignalEscalation ==
    [][/\ (forceHandlers' # forceHandlers) =>
           /\ isShuttingDown
           /\ forceHandlers = 0
           /\ forceHandlers' = 1
           /\ exitSite' = Running
           /\ UNCHANGED <<bots, task, disk, srv, totalPaid, isShuttingDown,
                          forceExitTimer, sigintHandler>>
       /\ (exitSite = Running /\ exitSite' = "forced") =>
           /\ isShuttingDown
           /\ forceHandlers = 1
           /\ ExitStatus(exitSite') = 1
           /\ ~AllStopsResolved
           /\ UNCHANGED <<bots, task, disk, srv, totalPaid>>
       /\ (Alive /\ isShuttingDown /\ ~AllStopsResolved) =>
           /\ (forceHandlers = 0) => (ENABLED SigintWarn /\ ~ENABLED SigintForce)
           /\ (forceHandlers > 0) => (ENABLED SigintForce /\ ~ENABLED SigintWarn)]_vars

C24_Witness ==
    /\ exitSite = "forced"
    /\ forceHandlers = 1
    /\ \E k \in BotIds : task[k].stop.pc = "upd"
    /\ \E k \in BotIds : task[k].stop.pc = "done"

\* C25: when an update of the mining loop is given up after its last
\* attempt, the loop's next wait is the 5 s of its catch, not UPDATE_INTERVAL.
C25_CooldownAfterFailure ==
    [][\A k \in BotIds :
          (/\ task[k].loop.pc = "upd"
           /\ task'[k].loop.pc = "sleep"
           /\ task'[k].loop.last = "failed")
          => task'[k].loop.wait = LoopErrorWait]_vars

\* C26: when an update of the mining loop is answered with success=false,
\* the bot's total and the session files are as before, no further attempt
\* of that request is made, the loop goes to its regular wait, and the wait
\* of an active bot ends in the next report.
C26_RefusalSkipped ==
    [][\A k \in BotIds :
          /\ (/\ task[k].loop.pc = "upd"
              /\ task[k].loop.resp = None
              /\ task'[k].loop.pc # "upd"
              /\ faults' = faults)
             => /\ bots'[k] = bots[k]
                /\ disk' = disk
                /\ srv' = srv
                /\ task'[k].loop.i = task[k].loop.i
                /\ task'[k].loop.count = task[k].loop.count
                /\ task'[k].loop.pc = "sleep"
                /\ task'[k].loop.wait = UPDATE_INTERVAL
          /\ (/\ task[k].loop.pc = "sleep"
              /\ task[k].loop.last # "failed"
              /\ task'[k].loop # task[k].loop)
             => IF bots[k].miningState.isActive
                THEN task'[k].loop.pc = "upd" /\ task'[k].loop.i = 0
                ELSE task'[k].loop.pc = "exited"]_vars

\* the first report was refused at its first attempt; total and record are
\* those of the stored session and the second report is on its way
C26_Witness ==
    \E k \in BotIds :
       /\ faults = 0
       /\ task[k].loop.pc = "upd"
       /\ task[k].loop.count = 2
       /\ task[k].stop.pc = "idle"
       /\ bots[k].miningState.isActive
       /\ bots[k].currentEarnings.total = StoredSession.earnings.total
       /\ disk[bots[k].sessionFile] = File(StoredSession)
       /\ srv[bots[k].wallet].balance = Account(TRUE).balance

====
